---- MODULE Spec2Model ----
(***************************************************************************)
(* tensornet: SparseTable, its gradient queue and background applier       *)
(* thread, and the process-wide SparseTableRegistry                        *)
(* (src/core/ps/table/sparse_table.cc); the sizing and the accessors of    *)
(* SparseAdamValue (src/core/ps/optimizer/adam_kernel.h).                  *)
(*                                                                         *)
(* One SparseTable is modelled with its caller threads (Push and Pull      *)
(* callers, the thread running the destructor) and its applier thread      *)
(* (UpdateGrad_); the registry is modelled with the threads that call      *)
(* CreateSparseTable, Get and SetHandle.                                   *)
(*                                                                         *)
(* A failed CHECK ends the calling operation at the check: no later        *)
(* statement of that call runs (pc "fatal").  What the logging library     *)
(* does to the rest of the process is outside the repository; every        *)
(* behaviour of a process-wide abort is a prefix of a behaviour here.      *)
(*                                                                         *)
(* The optimizer kernel (GetWeight, Apply, KeyCount) and the queue type    *)
(* are declared outside these source files; they are modelled from their   *)
(* documented contract.  A weight component is represented by the          *)
(* sequence of gradient components the update rule has folded into it      *)
(* (the empty sequence is the initial value): the Adam update is a         *)
(* function of exactly that sequence.                                      *)
(***************************************************************************)
EXTENDS Integers, Sequences, FiniteSets, TLC

\* ------------------------------------------------------------ bounds
NumPushers == 2        \* N: threads that call Push, one call each
EntriesPerPush == 2    \* K: var_infos of one well-formed push request
NumPullers == 1        \* threads that call Pull, one call each
NumCreators == 2       \* threads that call CreateSparseTable, one call each
MaxExtraSets == 1      \* SetHandle calls made after CreateSparseTable returned

\* ------------------------------------------------------------ configuration
\* SparseTable::dim_, fixed by the constructor
dim_ == 2

Pushers == 1..NumPushers
Pullers == 1..NumPullers
NumKeys == NumPushers * EntriesPerPush
Keys == 1..NumKeys
UnseenKey == NumKeys + 1          \* a sign no push request carries
AllKeys == Keys \cup {UnseenKey}
BufIds == Pushers \X (1..EntriesPerPush)

NoRecord == [absent |-> TRUE]
NoItem == [none |-> TRUE]
NoReq == [none |-> TRUE]

VARIABLES
    \* SparseTable
    stop_thread_,        \* the stop flag
    grad_update_queue_,  \* FIFO of SparseGradInfo
    values,              \* op_kernel_'s keyed collection: sign -> record
    heap,                \* gradient buffers: id -> [st, data]
    push,                \* per Push caller: [pc, req, i]
    pull,                \* per Pull caller: [pc, req, i, j, sign] and, as
                         \* history, settled: the buffers of the pushes that
                         \* had returned and were drained when the call began;
                         \* racing: an Apply had written part of the record
                         \* when the copy of the current vector began, or
                         \* wrote to it since
    resp,                \* per Pull caller: the SparsePullResponse
    applier,             \* grad_push_thread_: [pc, grad_info, j]
    dtor,                \* ~SparseTable: "none" | "joining" | "destroyed"
    \* history (not program state)
    applyLog,            \* buffer ids in the order their Apply completed
    enqLog,              \* buffer ids in the order they were enqueued
    insertedBy,          \* sign -> who inserted its record
    \* SparseTableRegistry and the tables' handles
    tables_,             \* the registry's vector of table pointers
    mu_,                 \* holder of the registry mutex, 0 when free
    handle_,             \* table -> SparseTable::handle_
    creator,             \* per CreateSparseTable caller: [pc, table_handle]
    get,                 \* the latest Get call: [h, n, racing, out]
    setLog,              \* per table: the SetHandle calls made on it
    \* SparseAdamValue (adam_kernel.h) and the files of Save and Load
    value,               \* one record of the kernel: [dim, bytes, w, m, v]
    files,               \* per saved table: [handle, shard, dir, save, load]
    \* history (not program state)
    atStop               \* the last buffer that was in the queue, enqueued
                         \* by a Push that had returned, when the destructor
                         \* raised the stop flag

tableVars == <<stop_thread_, grad_update_queue_, values, heap, push, pull,
               resp, applier, dtor, applyLog, enqLog, insertedBy>>
regVars == <<tables_, mu_, handle_, creator, get, setLog>>
auxVars == <<value, files, atStop>>
vars == <<tableVars, regVars, auxVars>>

\* ------------------------------------------------------------ requests
\* the gradient entry i of pusher p carries: one value per entry
GradOf(p, i) == p * 10 + i
WOf(p, i, len) == [j \in 1..len |-> GradOf(p, i)]

\* N*K pairwise distinct signs: pusher p pushes (p-1)*K+1 .. p*K
DistinctReq(p) ==
    [dim |-> dim_,
     var_infos |-> [i \in 1..EntriesPerPush |->
        [sign |-> (p - 1) * EntriesPerPush + i, w |-> WOf(p, i, dim_),
         batch_show |-> 1]]]
\* every entry of every pusher on sign 1
SharedReq(p) ==
    [dim |-> dim_,
     var_infos |-> [i \in 1..EntriesPerPush |->
        [sign |-> 1, w |-> WOf(p, i, dim_), batch_show |-> 1]]]
\* request dim differs from the table's
BadDimReq(p) == [DistinctReq(p) EXCEPT !.dim = dim_ + 1]
\* entry b is the first whose gradient length differs from dim
BadLenReq(p, b) ==
    [DistinctReq(p) EXCEPT !.var_infos[b].w = WOf(p, b, dim_ + 1)]

PushRequests(p) ==
    {DistinctReq(p), SharedReq(p), BadDimReq(p)}
        \cup {BadLenReq(p, b) : b \in 1..EntriesPerPush}

PullRequests ==
    {[dim |-> dim_, signs |-> <<1, UnseenKey>>],
     [dim |-> dim_, signs |-> <<2, 2>>],
     [dim |-> dim_ + 1, signs |-> <<1>>]}

\* ------------------------------------------------------------ kernel, queue
\* a record as the kernel constructs it: initial weight, show = 0
NewRecord == [w |-> [j \in 1..dim_ |-> <<>>], show |-> 0]

\* a lookup that replaces the record it finds by a fresh one
LookupResets(vals, sign) == [vals EXCEPT ![sign] = NewRecord]
\* the keyed collection after a lookup-or-create of sign
LookupOrCreate(vals, sign) ==
    IF vals[sign] = NoRecord THEN [vals EXCEPT ![sign] = NewRecord] ELSE vals

\* OptimizerKernel::KeyCount
KeyCount == Cardinality({k \in AllKeys : values[k] # NoRecord})

\* the update rule on component j: fold gradient component g into it
ApplyComponent(rec, j, g) == [rec EXCEPT !.w[j] = Append(@, g)]

\* the queue's push and pop
QueuePush(q, item) == Append(q, item)
QueueFront(q) == Head(q)
QueuePopped(q) == Tail(q)

\* ------------------------------------------------------------ initial state
InitTable ==
    /\ stop_thread_ = FALSE
    /\ grad_update_queue_ = <<>>
    /\ values = [k \in AllKeys |-> NoRecord]
    /\ heap = [b \in BufIds |-> [st |-> "unalloc", data |-> <<>>]]
    /\ push = [p \in Pushers |-> [pc |-> "idle", req |-> NoReq, i |-> 0]]
    /\ pull = [c \in Pullers |->
                 [pc |-> "idle", req |-> NoReq, i |-> 0, j |-> 0, sign |-> 0,
                  settled |-> {}, racing |-> FALSE]]
    /\ resp = [c \in Pullers |-> [table_handle |-> FALSE, dim |-> 0,
                                  weights |-> <<>>]]
    /\ applier = [pc |-> "outer", grad_info |-> NoItem, j |-> 0]
    /\ dtor = "none"
    /\ applyLog = <<>>
    /\ enqLog = <<>>
    /\ insertedBy = [k \in AllKeys |-> "none"]

\* creator c constructs table c
Creators == 1..NumCreators
Handles == 0..NumCreators
NoGet == [none |-> TRUE]

InitRegistry ==
    /\ tables_ = <<>>
    /\ mu_ = 0
    /\ handle_ = [t \in Creators |-> 0]
    /\ creator = [c \in Creators |-> [pc |-> "register", table_handle |-> 0]]
    /\ get = NoGet
    /\ setLog = [t \in Creators |-> <<>>]

NoValue == [none |-> TRUE]
NoFiles == [none |-> TRUE]
NoStop == <<0, 0>>

\* no record and no file under inspection
InitAux ==
    /\ value = NoValue
    /\ files = NoFiles
    /\ atStop = NoStop

Init == InitTable /\ InitRegistry /\ InitAux

\* the table object exists: no call runs on a destroyed table
Alive == dtor # "destroyed"

\* the queue is empty and the applier holds no item
Drained ==
    /\ grad_update_queue_ = <<>>
    /\ applier.pc \in {"outer", "pop", "exited"}
\* the buffers enqueued by Push calls that have returned
ReturnedBufs == {b \in BufIds : push[b[1]].pc = "done" /\ heap[b].st # "unalloc"}

\* the last buffer in the queue whose Push has returned
LastQueuedOfReturned ==
    LET at == {n \in 1..Len(grad_update_queue_) :
                 grad_update_queue_[n].grad \in ReturnedBufs}
    IN  IF at = {} THEN NoStop
        ELSE grad_update_queue_[CHOOSE n \in at : \A m \in at : m <= n].grad

\* ------------------------------------------------------------ Push
\* a Push without the CHECK_EQ on the request dim
PushBeginNoCheck(p) ==
    /\ Alive
    /\ push[p].pc = "idle"
    /\ \E req \in PushRequests(p) :
        push' = [push EXCEPT ![p] =
                    [pc |-> IF Len(req.var_infos) = 0 THEN "done" ELSE "loop",
                     req |-> req, i |-> 1]]
    /\ UNCHANGED <<stop_thread_, grad_update_queue_, values, heap, pull, resp,
                   applier, dtor, applyLog, enqLog, insertedBy>>
    /\ UNCHANGED <<regVars, auxVars>>

\* Push, line 74: CHECK_EQ(dim_, req->dim())
PushBegin(p) ==
    /\ Alive
    /\ push[p].pc = "idle"
    /\ \E req \in PushRequests(p) :
        push' = [push EXCEPT ![p] =
                    [pc |-> IF req.dim # dim_ THEN "fatal"
                            ELSE IF Len(req.var_infos) = 0 THEN "done"
                            ELSE "loop",
                     req |-> req, i |-> 1]]
    /\ UNCHANGED <<stop_thread_, grad_update_queue_, values, heap, pull, resp,
                   applier, dtor, applyLog, enqLog, insertedBy>>
    /\ UNCHANGED <<regVars, auxVars>>

\* a loop index that walks var_infos from the wrong end
VarInfoReversed(req, i) == req.var_infos[Len(req.var_infos) - i + 1]
\* a loop that reads var_infos(0) in every iteration
VarInfoFirst(req, i) == req.var_infos[1]
\* Push, line 77: var_info = req->var_infos(i)
VarInfo(req, i) == req.var_infos[i]

\* a Push that skips an entry of the wrong length and goes on
PushEntrySkipsBad(p) ==
    /\ Alive
    /\ push[p].pc = "loop"
    /\ LET i == push[p].i
           var_info == VarInfo(push[p].req, i)
           buf == <<p, i>>
           grad_info == [sign |-> var_info.sign,
                         batch_show |-> var_info.batch_show, grad |-> buf]
           next == [push EXCEPT ![p].i = i + 1,
                      ![p].pc = IF i < Len(push[p].req.var_infos)
                                THEN "loop" ELSE "done"]
       IN  IF Len(var_info.w) # dim_
           THEN /\ push' = next
                /\ UNCHANGED <<heap, grad_update_queue_, enqLog>>
           ELSE /\ heap' = [heap EXCEPT ![buf] =
                               [st |-> "live", data |-> var_info.w]]
                /\ grad_update_queue_' = QueuePush(grad_update_queue_, grad_info)
                /\ enqLog' = Append(enqLog, buf)
                /\ push' = next
    /\ UNCHANGED <<stop_thread_, values, pull, resp, applier, dtor, applyLog,
                   insertedBy>>
    /\ UNCHANGED <<regVars, auxVars>>

\* Push, lines 76-92: one iteration of the loop over var_infos; the call
\* returns after the last one
PushEntry(p) ==
    /\ Alive
    /\ push[p].pc = "loop"
    /\ LET i == push[p].i
           var_info == VarInfo(push[p].req, i)
           buf == <<p, i>>
           grad_info == [sign |-> var_info.sign,
                         batch_show |-> var_info.batch_show, grad |-> buf]
       IN  IF Len(var_info.w) # dim_
           THEN \* CHECK_EQ(var_info.w_size(), dim_) fails
                /\ push' = [push EXCEPT ![p].pc = "fatal"]
                /\ UNCHANGED <<heap, grad_update_queue_, enqLog>>
           ELSE /\ heap' = [heap EXCEPT ![buf] =
                               [st |-> "live", data |-> var_info.w]]
                /\ grad_update_queue_' = QueuePush(grad_update_queue_, grad_info)
                /\ enqLog' = Append(enqLog, buf)
                /\ push' = [push EXCEPT ![p].i = i + 1,
                      ![p].pc = IF i < Len(push[p].req.var_infos)
                                THEN "loop" ELSE "done"]
    /\ UNCHANGED <<stop_thread_, values, pull, resp, applier, dtor, applyLog,
                   insertedBy>>
    /\ UNCHANGED <<regVars, auxVars>>

\* ------------------------------------------------------------ Pull
\* the applier's Apply has written some but not all components of sign's
\* record
MidApply(sign) ==
    applier.pc = "apply" /\ applier.grad_info.sign = sign /\ applier.j > 1

\* Pull, lines 53-56: set_table_handle, CHECK_EQ(dim_, req->dim()), set_dim
PullBegin(c) ==
    /\ Alive
    /\ pull[c].pc = "idle"
    /\ \E req \in PullRequests :
        /\ pull' = [pull EXCEPT ![c] =
                      [pc |-> IF req.dim # dim_ THEN "fatal"
                              ELSE IF Len(req.signs) = 0 THEN "done"
                              ELSE "loop",
                       req |-> req, i |-> 1, j |-> 0, sign |-> 0,
                       settled |-> IF Drained THEN ReturnedBufs ELSE {},
                       racing |-> FALSE]]
        /\ resp' = [resp EXCEPT ![c].table_handle = TRUE,
                                ![c].dim = IF req.dim = dim_ THEN req.dim ELSE @]
    /\ UNCHANGED <<stop_thread_, grad_update_queue_, values, heap, push,
                   applier, dtor, applyLog, enqLog, insertedBy>>
    /\ UNCHANGED <<regVars, auxVars>>

\* Pull, lines 59-64: GetWeight(sign), CHECK(nullptr != w), add_weights()
PullGetWeight(c) ==
    /\ Alive
    /\ pull[c].pc = "loop"
    /\ LET sign == pull[c].req.signs[pull[c].i]
       IN  /\ values' = LookupOrCreate(values, sign)
           /\ insertedBy' = IF values[sign] = NoRecord
                            THEN [insertedBy EXCEPT ![sign] = "puller"]
                            ELSE insertedBy
           /\ resp' = [resp EXCEPT ![c].weights = Append(@, <<>>)]
           /\ pull' = [pull EXCEPT ![c].pc = "copy", ![c].sign = sign,
                                   ![c].j = 1,
                                   ![c].racing = MidApply(sign)]
    /\ UNCHANGED <<stop_thread_, grad_update_queue_, heap, push, applier,
                   dtor, applyLog, enqLog>>
    /\ UNCHANGED <<regVars, auxVars>>

\* a copy loop that stops one component early
PullCopyShort(c) ==
    /\ Alive
    /\ pull[c].pc = "copy"
    /\ LET j == pull[c].j
           n == Len(resp[c].weights)
       IN  /\ resp' = [resp EXCEPT ![c].weights[n] =
                          Append(@, values[pull[c].sign].w[j])]
           /\ pull' = IF j < dim_ - 1
                      THEN [pull EXCEPT ![c].j = j + 1]
                      ELSE [pull EXCEPT ![c].i = @ + 1, ![c].j = 0,
                              ![c].sign = 0, ![c].racing = FALSE,
                              ![c].pc = IF pull[c].i < Len(pull[c].req.signs)
                                        THEN "loop" ELSE "done"]
    /\ UNCHANGED <<stop_thread_, grad_update_queue_, values, heap, push,
                   applier, dtor, applyLog, enqLog, insertedBy>>
    /\ UNCHANGED <<regVars, auxVars>>

\* Pull, lines 67-71: weights->add_w(w[j]), one component per step; after the
\* last component of the last sign the call returns
PullCopy(c) ==
    /\ Alive
    /\ pull[c].pc = "copy"
    /\ LET j == pull[c].j
           n == Len(resp[c].weights)
       IN  /\ resp' = [resp EXCEPT ![c].weights[n] =
                          Append(@, values[pull[c].sign].w[j])]
           /\ pull' = IF j < dim_
                      THEN [pull EXCEPT ![c].j = j + 1]
                      ELSE [pull EXCEPT ![c].i = @ + 1, ![c].j = 0,
                              ![c].sign = 0, ![c].racing = FALSE,
                              ![c].pc = IF pull[c].i < Len(pull[c].req.signs)
                                        THEN "loop" ELSE "done"]
    /\ UNCHANGED <<stop_thread_, grad_update_queue_, values, heap, push,
                   applier, dtor, applyLog, enqLog, insertedBy>>
    /\ UNCHANGED <<regVars, auxVars>>

\* ------------------------------------------------------------ UpdateGrad_
\* an applier that looks at the queue again although the flag is raised
ApplierIgnoresStop ==
    /\ applier.pc = "outer"
    /\ applier' = [applier EXCEPT !.pc = IF stop_thread_ /\ grad_update_queue_ = <<>>
                                         THEN "exited" ELSE "pop"]
    /\ UNCHANGED <<stop_thread_, grad_update_queue_, values, heap, push, pull,
                   resp, dtor, applyLog, enqLog, insertedBy>>
    /\ UNCHANGED <<regVars, auxVars>>

\* a loop condition that never sees the flag raised
ApplierLoopsForever ==
    /\ applier.pc = "outer"
    /\ applier' = [applier EXCEPT !.pc = "pop"]
    /\ UNCHANGED <<stop_thread_, grad_update_queue_, values, heap, push, pull,
                   resp, dtor, applyLog, enqLog, insertedBy>>
    /\ UNCHANGED <<regVars, auxVars>>

\* UpdateGrad_, line 130: while (!stop_thread_)
ApplierCheckStop ==
    /\ applier.pc = "outer"
    /\ applier' = [applier EXCEPT !.pc = IF stop_thread_ THEN "exited"
                                         ELSE "pop"]
    /\ UNCHANGED <<stop_thread_, grad_update_queue_, values, heap, push, pull,
                   resp, dtor, applyLog, enqLog, insertedBy>>
    /\ UNCHANGED <<regVars, auxVars>>

\* an applier that leaves UpdateGrad_ when it finds the queue empty
ApplierPopExits ==
    /\ applier.pc = "pop"
    /\ IF grad_update_queue_ # <<>>
       THEN /\ applier' = [applier EXCEPT !.pc = "lookup",
                              !.grad_info = QueueFront(grad_update_queue_)]
            /\ grad_update_queue_' = QueuePopped(grad_update_queue_)
       ELSE /\ applier' = [applier EXCEPT !.pc = "exited"]
            /\ UNCHANGED grad_update_queue_
    /\ UNCHANGED <<stop_thread_, values, heap, push, pull, resp, dtor,
                   applyLog, enqLog, insertedBy>>
    /\ UNCHANGED <<regVars, auxVars>>

\* an applier that releases the popped item without applying it
ApplierPopNoApply ==
    /\ applier.pc = "pop"
    /\ IF grad_update_queue_ # <<>>
       THEN /\ applier' = [applier EXCEPT !.pc = "delete",
                              !.grad_info = QueueFront(grad_update_queue_)]
            /\ grad_update_queue_' = QueuePopped(grad_update_queue_)
       ELSE /\ applier' = [applier EXCEPT !.pc = "outer"]
            /\ UNCHANGED grad_update_queue_
    /\ UNCHANGED <<stop_thread_, values, heap, push, pull, resp, dtor,
                   applyLog, enqLog, insertedBy>>
    /\ UNCHANGED <<regVars, auxVars>>

\* UpdateGrad_, line 133: while (grad_update_queue_.pop(grad_info))
ApplierPop ==
    /\ applier.pc = "pop"
    /\ IF grad_update_queue_ # <<>>
       THEN /\ applier' = [applier EXCEPT !.pc = "lookup",
                              !.grad_info = QueueFront(grad_update_queue_)]
            /\ grad_update_queue_' = QueuePopped(grad_update_queue_)
       ELSE /\ applier' = [applier EXCEPT !.pc = "outer"]
            /\ UNCHANGED grad_update_queue_
    /\ UNCHANGED <<stop_thread_, values, heap, push, pull, resp, dtor,
                   applyLog, enqLog, insertedBy>>
    /\ UNCHANGED <<regVars, auxVars>>

\* UpdateGrad_, line 134: Apply(sign, grad_info) looks its record up or
\* creates it
ApplierLookup ==
    /\ applier.pc = "lookup"
    /\ LET sign == applier.grad_info.sign
       IN  /\ values' = LookupOrCreate(values, sign)
           /\ insertedBy' = IF values[sign] = NoRecord
                            THEN [insertedBy EXCEPT ![sign] = "applier"]
                            ELSE insertedBy
    /\ applier' = [applier EXCEPT !.pc = "apply", !.j = 1]
    /\ UNCHANGED <<stop_thread_, grad_update_queue_, heap, push, pull, resp,
                   dtor, applyLog, enqLog>>
    /\ UNCHANGED <<regVars, auxVars>>

\* the Pull callers, with racing set for those copying sign's record
Raced(sign) ==
    [c \in Pullers |->
        IF pull[c].pc = "copy" /\ pull[c].sign = sign
        THEN [pull[c] EXCEPT !.racing = TRUE] ELSE pull[c]]

\* an Apply that updates the first component only
ApplierApplyFirstOnly ==
    /\ applier.pc = "apply"
    /\ LET sign == applier.grad_info.sign
           g == heap[applier.grad_info.grad].data[1]
           rec == ApplyComponent(values[sign], 1, g)
       IN  /\ values' = [values EXCEPT ![sign] =
                [rec EXCEPT !.show = @ + applier.grad_info.batch_show]]
           /\ applier' = [applier EXCEPT !.pc = "delete", !.j = 0]
           /\ applyLog' = Append(applyLog, applier.grad_info.grad)
           /\ pull' = Raced(sign)
    /\ UNCHANGED <<stop_thread_, grad_update_queue_, heap, push, resp,
                   dtor, enqLog, insertedBy>>
    /\ UNCHANGED <<regVars, auxVars>>

\* UpdateGrad_, line 134: Apply updates the record in place, one component
\* per step; show accumulates batch_show with the last one
ApplierApply ==
    /\ applier.pc = "apply"
    /\ LET sign == applier.grad_info.sign
           j == applier.j
           g == heap[applier.grad_info.grad].data[j]
           rec == ApplyComponent(values[sign], j, g)
       IN  /\ IF j < dim_
              THEN /\ values' = [values EXCEPT ![sign] = rec]
                   /\ applier' = [applier EXCEPT !.j = j + 1]
                   /\ UNCHANGED applyLog
              ELSE /\ values' = [values EXCEPT ![sign] =
                        [rec EXCEPT !.show = @ + applier.grad_info.batch_show]]
                   /\ applier' = [applier EXCEPT !.pc = "delete", !.j = 0]
                   /\ applyLog' = Append(applyLog, applier.grad_info.grad)
           /\ pull' = Raced(sign)
    /\ UNCHANGED <<stop_thread_, grad_update_queue_, heap, push, resp,
                   dtor, enqLog, insertedBy>>
    /\ UNCHANGED <<regVars, auxVars>>

\* what a delete-expression without [] does to a buffer made by new[]: the
\* behaviour is undefined.  A build whose allocator takes no size or array
\* information from the call releases the buffer ("freed"); any other build
\* leaves the allocator in an undefined state ("undefined").  The outcome is
\* the same for every buffer of one run.
Released == {"freed", "undefined"}
DeleteOutcomes ==
    LET seen == {heap[b].st : b \in BufIds} \cap Released
    IN  IF seen = {} THEN Released ELSE seen

\* UpdateGrad_, line 135: delete grad_info.grad (the buffer Push made with
\* new float[dim_], line 84)
ApplierDelete ==
    /\ applier.pc = "delete"
    /\ \E outcome \in DeleteOutcomes :
          heap' = [heap EXCEPT ![applier.grad_info.grad].st = outcome]
    /\ applier' = [applier EXCEPT !.pc = "pop", !.grad_info = NoItem]
    /\ UNCHANGED <<stop_thread_, grad_update_queue_, values, push, pull, resp,
                   dtor, applyLog, enqLog, insertedBy>>
    /\ UNCHANGED <<regVars, auxVars>>

Applier ==
    \/ ApplierCheckStop
    \/ ApplierPop
    \/ ApplierLookup
    \/ ApplierApply
    \/ ApplierDelete

\* ------------------------------------------------------------ ~SparseTable
\* ~SparseTable, line 42: stop_thread_ = true
DtorStop ==
    /\ dtor = "none"
    /\ stop_thread_' = TRUE
    /\ dtor' = "joining"
    /\ atStop' = LastQueuedOfReturned
    /\ UNCHANGED <<grad_update_queue_, values, heap, push, pull, resp,
                   applier, applyLog, enqLog, insertedBy>>
    /\ UNCHANGED <<regVars, value, files>>

\* a destructor that detaches the thread instead of joining it
DtorJoinNoWait ==
    /\ dtor = "joining"
    /\ dtor' = "destroyed"
    /\ UNCHANGED <<stop_thread_, grad_update_queue_, values, heap, push, pull,
                   resp, applier, applyLog, enqLog, insertedBy>>
    /\ UNCHANGED <<regVars, auxVars>>

\* ~SparseTable, line 43: grad_push_thread_.join() returns once the thread
\* has left UpdateGrad_
DtorJoin ==
    /\ dtor = "joining"
    /\ applier.pc = "exited"
    /\ dtor' = "destroyed"
    /\ UNCHANGED <<stop_thread_, grad_update_queue_, values, heap, push, pull,
                   resp, applier, applyLog, enqLog, insertedBy>>
    /\ UNCHANGED <<regVars, auxVars>>

\* ------------------------------------------------------------ registry
\* a Register that does not wait for mu_
RegisterNoLock(c) ==
    /\ creator[c].pc = "register"
    /\ mu_' = c
    /\ creator' = [creator EXCEPT ![c].pc = "read"]
    /\ UNCHANGED <<tables_, handle_, get, setLog>>
    /\ UNCHANGED <<tableVars, auxVars>>

\* ------------------------------------------------------------ repeated Push
\* A caller may call Push any number of times.  To keep the state finite, a
\* caller's next call starts once the buffers of its previous call have been
\* released, and the previous call's gradients are then dropped from the
\* history and from the weight terms (the applier's control flow reads
\* neither).
OwnGrads(p) == {GradOf(p, i) : i \in 1..EntriesPerPush}
AppliedOf(p, sign) ==
    Cardinality({n \in 1..Len(applyLog) :
        /\ applyLog[n][1] = p
        /\ push[p].req.var_infos[applyLog[n][2]].sign = sign})
Forgotten(p) ==
    [k \in AllKeys |->
        IF values[k] = NoRecord THEN NoRecord
        ELSE [w |-> [j \in 1..dim_ |->
                        SelectSeq(values[k].w[j], LAMBDA g : g \notin OwnGrads(p))],
              show |-> values[k].show - AppliedOf(p, k)]]

\* Push, line 73: the caller's next call
PushAgain(p) ==
    /\ Alive
    /\ push[p].pc = "done"
    /\ \A i \in 1..EntriesPerPush : heap[<<p, i>>].st # "live"
    /\ push' = [push EXCEPT ![p] = [pc |-> "idle", req |-> NoReq, i |-> 0]]
    /\ heap' = [b \in BufIds |->
                  IF b[1] = p THEN [st |-> "unalloc", data |-> <<>>] ELSE heap[b]]
    /\ applyLog' = SelectSeq(applyLog, LAMBDA b : b[1] # p)
    /\ enqLog' = SelectSeq(enqLog, LAMBDA b : b[1] # p)
    /\ values' = Forgotten(p)
    /\ UNCHANGED <<stop_thread_, grad_update_queue_, pull, resp, applier, dtor,
                   insertedBy>>
    /\ UNCHANGED <<regVars, auxVars>>

\* ------------------------------------------------------------ registry
\* Register, line 152: lock_guard takes mu_
RegisterLock(c) ==
    /\ creator[c].pc = "register"
    /\ mu_ = 0
    /\ mu_' = c
    /\ creator' = [creator EXCEPT ![c].pc = "read"]
    /\ UNCHANGED <<tables_, handle_, get, setLog>>
    /\ UNCHANGED <<tableVars, auxVars>>

\* Register, line 154: table_handle = tables_.size()
RegisterRead(c) ==
    /\ creator[c].pc = "read"
    /\ creator' = [creator EXCEPT ![c].pc = "emplace",
                                  ![c].table_handle = Len(tables_)]
    /\ UNCHANGED <<tables_, mu_, handle_, get, setLog>>
    /\ UNCHANGED <<tableVars, auxVars>>

\* Register, lines 155-157: emplace_back(table), return table_handle; the
\* lock_guard releases mu_ on return
RegisterEmplace(c) ==
    /\ creator[c].pc = "emplace"
    /\ tables_' = Append(tables_, c)
    /\ mu_' = IF mu_ = c THEN 0 ELSE mu_
    /\ creator' = [creator EXCEPT ![c].pc = "sethandle"]
    /\ UNCHANGED <<handle_, get, setLog>>
    /\ UNCHANGED <<tableVars, auxVars>>

\* SetHandle, line 47: CHECK(handle_ == 0)
SetHandleCheck(cur) == cur = 0

\* SetHandle, lines 46-50, on table t with argument h
SetHandle(t, h) ==
    /\ handle_' = IF SetHandleCheck(handle_[t])
                  THEN [handle_ EXCEPT ![t] = h] ELSE handle_
    /\ setLog' = [setLog EXCEPT ![t] = Append(@,
                    [arg |-> h, before |-> handle_[t],
                     ok |-> SetHandleCheck(handle_[t]),
                     after |-> handle_'[t]])]

\* CreateSparseTable, lines 163-165: SetHandle(the handle Register returned),
\* return table
CreateSetHandle(c) ==
    /\ creator[c].pc = "sethandle"
    /\ SetHandle(c, creator[c].table_handle)
    /\ creator' = [creator EXCEPT ![c].pc =
                      IF SetHandleCheck(handle_[c]) THEN "done" ELSE "fatal"]
    /\ UNCHANGED <<tables_, mu_, get>>
    /\ UNCHANGED <<tableVars, auxVars>>

\* a caller that holds the table CreateSparseTable returned calls SetHandle
\* on it again
ExtraSets ==
    UNION {{<<u, k>> : k \in 2..Len(setLog[u])} : u \in Creators}
SetHandleAgain(t, h) ==
    /\ creator[t].pc = "done"
    /\ Cardinality(ExtraSets) < MaxExtraSets
    /\ SetHandle(t, h)
    /\ UNCHANGED <<tables_, mu_, creator, get>>
    /\ UNCHANGED <<tableVars, auxVars>>

\* a bound check that lets table_handle = tables_.size() through
GetInRangeInclusive(h, n) == h <= n
\* Get, line 146: CHECK(table_handle < tables_.size())
GetInRange(h, n) == h < n

\* Get reads tables_ without taking mu_: while a Register is between reading
\* the size and returning from emplace_back the read races with the write
EmplaceInFlight == \E c \in Creators : creator[c].pc = "emplace"

\* what Get(h) can return: Fatal when the CHECK fails, the element at h,
\* Wild for a read past the end or a read that races with emplace_back
Fatal == [kind |-> "fatal", table |-> 0]
Wild == [kind |-> "wild", table |-> 0]
Table(t) == [kind |-> "table", table |-> t]
GetOutcomes(h) ==
    LET n == Len(tables_)
        plain == IF ~GetInRange(h, n) THEN Fatal
                 ELSE IF h + 1 <= n THEN Table(tables_[h + 1])
                 ELSE Wild
    IN  IF EmplaceInFlight
        THEN {plain, Wild} \cup
             (IF h = n
              THEN {Table(c) : c \in {d \in Creators : creator[d].pc = "emplace"}}
              ELSE {})
        ELSE {plain}

\* Get, lines 145-149
Get(h) ==
    /\ \E out \in GetOutcomes(h) :
        get' = [h |-> h, n |-> Len(tables_), racing |-> EmplaceInFlight,
                out |-> out]
    /\ UNCHANGED <<tables_, mu_, handle_, creator, setLog>>
    /\ UNCHANGED <<tableVars, auxVars>>

\* ------------------------------------------------------------ SparseAdamValue
\* adam_kernel.h, lines 59-149.  Sizes are C++ int values (32 bits, two's
\* complement); the byte counts here are all multiples of sizeof(float), so
\* the arithmetic is carried out in units of sizeof(float) and converted to
\* the int byte count at the end.
SizeofFloat == 4
\* sizeof(SparseAdamValue): three 2-slot unions, int dim_, float show_, and
\* the zero-length data[]
SizeofSparseAdamValue == 3 * (2 * SizeofFloat) + 4 + SizeofFloat
\* 2^32 bytes, in units of sizeof(float)
IntRange == 2^30
\* the int a byte count of n floats converts to
ToInt(n) == SizeofFloat * (((n + IntRange \div 2) % IntRange) - IntRange \div 2)
\* the largest dim whose record size still fits an int
MaxFitDim == ((IntRange \div 2 - 1) - SizeofSparseAdamValue \div SizeofFloat) \div 3

\* a predicate that takes the union's two slots as the inline capacity
IsMiniDimTwoSlots(dim) == 2 >= dim
\* IsMiniDim, lines 69-76
IsMiniDim(dim) == 2 > dim

\* DynSizeof, lines 64-67
DynSizeof(dim) ==
    ToInt(SizeofSparseAdamValue \div SizeofFloat
            + dim * 3 * (IF IsMiniDim(dim) THEN 0 ELSE 1))

\* IsMiniDim_, lines 103-105
IsMiniDim_(v) == IsMiniDim(v.dim)
\* Weight, M, V, lines 82-137: the union member the accessor returns
Accessor(v) == IF IsMiniDim_(v) THEN "v" ELSE "p"

\* the dims a record is sized for: the small ones, the ones of the sizing
\* test, and the two around the largest size an int holds
MinDim == 0 - 1
MaxSmallDim == 4
TestedDims == {1, 2, 3, 8, 64}
SmallDims == (MinDim..MaxSmallDim) \cup TestedDims
Dims == SmallDims \cup {MaxFitDim, MaxFitDim + 1}

InitValue ==
    value \in {[dim |-> d, bytes |-> 0, w |-> "none", m |-> "none",
                v |-> "none"] : d \in Dims}

\* the keyed collection allocates DynSizeof(dim) bytes for the record
Allocate ==
    /\ value # NoValue
    /\ value.bytes = 0
    /\ value' = [value EXCEPT !.bytes = DynSizeof(value.dim)]
    /\ UNCHANGED <<tableVars, regVars, files, atStop>>

\* Weight(), lines 82-96
Weight ==
    /\ value # NoValue
    /\ value.w = "none"
    /\ value' = [value EXCEPT !.w = Accessor(value)]
    /\ UNCHANGED <<tableVars, regVars, files, atStop>>

\* M(), lines 107-121
M ==
    /\ value # NoValue
    /\ value.m = "none"
    /\ value' = [value EXCEPT !.m = Accessor(value)]
    /\ UNCHANGED <<tableVars, regVars, files, atStop>>

\* V(), lines 123-137
V ==
    /\ value # NoValue
    /\ value.v = "none"
    /\ value' = [value EXCEPT !.v = Accessor(value)]
    /\ UNCHANGED <<tableVars, regVars, files, atStop>>

\* ------------------------------------------------------------ Save, Load
\* a string is the sequence of its characters
Digits == <<"0", "1", "2", "3", "4", "5", "6", "7", "8", "9">>
RECURSIVE to_string(_)
\* std::to_string(int): the decimal digits, "-" first when negative
to_string(n) ==
    IF n < 0 THEN <<"-">> \o to_string(0 - n)
    ELSE IF n < 10 THEN <<Digits[n + 1]>>
    ELSE to_string(n \div 10) \o <<Digits[(n % 10) + 1]>>

SparseTableDir == <<"/", "s", "p", "a", "r", "s", "e", "_", "t", "a", "b",
                    "l", "e", "/">>
RankPrefix == <<"/", "r", "a", "n", "k", "_">>

\* a path that puts nothing between the handle and the shard id
SaveFileNoRank(filepath, handle, shard) ==
    filepath \o SparseTableDir \o to_string(handle) \o to_string(shard)
\* Save, lines 97-98: the file the kernel serializes into
SaveFile(filepath, handle, shard) ==
    filepath \o SparseTableDir \o to_string(handle) \o RankPrefix
        \o to_string(shard)
\* Load, lines 113-114: the file the kernel deserializes from
LoadFile(filepath, handle, shard) ==
    filepath \o SparseTableDir \o to_string(handle) \o RankPrefix
        \o to_string(shard)

\* the handles and shard ids of the saved tables: one and two digits
MaxHandle == 12
MaxShard == 12
FileHandles == {0, 1, MaxHandle - 1, MaxHandle}
FileShards == {0, 1, MaxShard - 1, MaxShard}
Directories == {<<"/", "m">>, <<"/", "m", "/", "1">>}
NoFile == <<>>
SavedTables == 1..2

InitFiles ==
    /\ files \in [SavedTables ->
                    [handle : FileHandles, shard : FileShards,
                     dir : {NoFile}, save : {NoFile}, load : {NoFile}]]

\* Save(filepath) on table t, lines 94-108; a table is saved into and loaded
\* from one directory
Save(t, filepath) ==
    /\ files # NoFiles
    /\ files[t].save = NoFile
    /\ files[t].dir \in {NoFile, filepath}
    /\ files' = [files EXCEPT
                    ![t].dir = filepath,
                    ![t].save = SaveFile(filepath, files[t].handle,
                                         files[t].shard)]
    /\ UNCHANGED <<tableVars, regVars, value, atStop>>

\* Load(filepath) on table t, lines 110-123
Load(t, filepath) ==
    /\ files # NoFiles
    /\ files[t].load = NoFile
    /\ files[t].dir \in {NoFile, filepath}
    /\ files' = [files EXCEPT
                    ![t].dir = filepath,
                    ![t].load = LoadFile(filepath, files[t].handle,
                                         files[t].shard)]
    /\ UNCHANGED <<tableVars, regVars, value, atStop>>

\* ------------------------------------------------------------ specifications
Running ==
    \/ \E p \in Pushers : PushBegin(p)
    \/ \E p \in Pushers : PushEntry(p)
    \/ \E c \in Pullers : PullBegin(c)
    \/ \E c \in Pullers : PullGetWeight(c)
    \/ \E c \in Pullers : PullCopy(c)
    \/ Applier

Next ==
    \/ Running
    \/ DtorStop
    \/ DtorJoin

\* one table from its construction on
Spec == Init /\ [][Next]_vars

RegNext ==
    \/ \E c \in Creators : RegisterLock(c)
    \/ \E c \in Creators : RegisterRead(c)
    \/ \E c \in Creators : RegisterEmplace(c)
    \/ \E c \in Creators : CreateSetHandle(c)
    \/ \E t \in Creators, h \in Handles : SetHandleAgain(t, h)
    \/ \E h \in Handles : Get(h)

\* the registry and the threads that create, look up and re-handle tables
RegSpec == Init /\ [][RegNext]_vars

\* one table whose stop flag is never raised, its applier thread scheduled
\* fairly
LiveSpec == Init /\ [][Running]_vars /\ WF_vars(Applier)

StopNext ==
    \/ \E p \in Pushers : PushBegin(p)
    \/ \E p \in Pushers : PushEntry(p)
    \/ \E p \in Pushers : PushAgain(p)
    \/ Applier
    \/ DtorStop
    \/ DtorJoin

\* one table whose callers push again and again, until it is destroyed; the
\* applier thread and the thread in the destructor are scheduled fairly, the
\* callers of Push run or pause as they like
StopSpec ==
    Init /\ [][StopNext]_vars /\ WF_vars(Applier) /\ WF_vars(DtorJoin)

SizeNext == Allocate \/ Weight \/ M \/ V

\* one record of the kernel, for every dim it can be sized for
SizeInit ==
    /\ InitTable /\ InitRegistry
    /\ InitValue /\ files = NoFiles /\ atStop = NoStop
SizeSpec == SizeInit /\ [][SizeNext]_vars

FileNext ==
    \/ \E t \in SavedTables, d \in Directories : Save(t, d)
    \/ \E t \in SavedTables, d \in Directories : Load(t, d)

\* two tables, each saved and loaded
FileInit ==
    /\ InitTable /\ InitRegistry
    /\ InitFiles /\ value = NoValue /\ atStop = NoStop
FileSpec == FileInit /\ [][FileNext]_vars

\* ------------------------------------------------------------ claims: registry
\* Register has returned to creator c (its table_handle is the handle returned)
Registered(c) == creator[c].pc \in {"sethandle", "done", "fatal"}

HandlesInOrder ==
    /\ Len(tables_) = Cardinality({c \in Creators : Registered(c)})
    /\ \A c \in Creators : Registered(c) =>
          /\ creator[c].table_handle < Len(tables_)
          /\ tables_[creator[c].table_handle + 1] = c
RegistryGrows ==
    /\ Len(tables_') >= Len(tables_)
    /\ SubSeq(tables_', 1, Len(tables_)) = tables_

\* C6: under any interleaving of Register calls the n-th registration to take
\* effect returns handle n-1 (the handle is the table's position in tables_,
\* so handles are distinct, gap-free and increasing in registration order),
\* and tables_ only ever grows at its end.
C6_HandlesInRegistrationOrder == [](HandlesInOrder) /\ [][RegistryGrows]_vars

\* every creator has registered, creator 1 last
C6_Witness ==
    /\ \A c \in Creators : Registered(c)
    /\ creator[1].table_handle = NumCreators - 1

\* C7: the handle is set once: every SetHandle call on a table after its
\* first fails the CHECK and leaves handle_ unchanged.
C7_SecondSetHandleFails ==
    \A t \in Creators : \A k \in 2..Len(setLog[t]) :
        /\ ~setLog[t][k].ok
        /\ setLog[t][k].after = setLog[t][k].before

GetAnswers ==
    (get # NoGet /\ ~get.racing) =>
        IF get.h < get.n
        THEN /\ get.out.kind = "table"
             /\ Registered(get.out.table)
             /\ creator[get.out.table].table_handle = get.h
        ELSE get.out = Fatal
FailedGetChangesNothing ==
    (get' # get /\ get'.out = Fatal) =>
        (tables_' = tables_ /\ handle_' = handle_ /\ mu_' = mu_)

\* C8: with n tables registered (no Register in the middle of emplace_back),
\* Get(h) returns the table whose Register call returned h when h < n and
\* fails the CHECK when h >= n; a failing Get leaves the registry unchanged.
C8_GetInRangeOrFatal == [](GetAnswers) /\ [][FailedGetChangesNothing]_vars

\* Get(n) after all n = NumCreators registrations fails
C8_Witness ==
    /\ get # NoGet
    /\ ~get.racing
    /\ get.n = NumCreators
    /\ get.h = NumCreators
    /\ get.out = Fatal

\* ------------------------------------------------------------ claims: table
Range(f) == {f[x] : x \in DOMAIN f}
\* the request entry buffer b was made from
EntryOf(b) == push[b[1]].req.var_infos[b[2]]
SignOf(b) == EntryOf(b).sign
Enqueued(b) == heap[b].st # "unalloc"
TimesApplied(b) == Cardinality({n \in 1..Len(applyLog) : applyLog[n] = b})
\* the log restricted to the entries of pusher p
OfPusher(log, p) == SelectSeq(log, LAMBDA b : b[1] = p)
\* the buffers in the queue, front first
QueueBufs == [n \in 1..Len(grad_update_queue_) |-> grad_update_queue_[n].grad]
\* the buffer the applier has popped and not yet applied
InApply == IF applier.pc \in {"lookup", "apply"}
           THEN <<applier.grad_info.grad>> ELSE <<>>

AppliedAtMostOnce ==
    \A b \in BufIds : TimesApplied(b) <= 1 /\ (TimesApplied(b) = 1 => Enqueued(b))
\* the kernel has seen exactly the applies the log holds: show counts them
KernelMatchesLog ==
    \A k \in AllKeys : values[k] # NoRecord =>
        values[k].show =
            Cardinality({n \in 1..Len(applyLog) : SignOf(applyLog[n]) = k})

\* C1: while the stop flag is never raised and the applier thread is
\* scheduled fairly, every SparseGradInfo that Push enqueued is eventually
\* popped and applied to the kernel, and no item is applied twice.
C1_EveryItemAppliedOnce ==
    /\ \A b \in BufIds : Enqueued(b) ~> (TimesApplied(b) = 1)
    /\ [](AppliedAtMostOnce /\ KernelMatchesLog)

\* every entry of two well-formed pushes has been applied
C1_Witness ==
    /\ \A b \in BufIds : TimesApplied(b) = 1
    /\ grad_update_queue_ = <<>>

\* C2: one Push call enqueues exactly one SparseGradInfo per request entry,
\* in request order, each carrying its entry's sign and gradient, and the
\* applier applies the entries of that call in that order, whatever other
\* Push calls run concurrently.
C2_RequestOrderPerPush ==
    /\ enqLog = applyLog \o InApply \o QueueBufs
    /\ \A n \in 1..Len(grad_update_queue_) :
          grad_update_queue_[n].sign = SignOf(grad_update_queue_[n].grad)
    /\ \A p \in Pushers :
          /\ OfPusher(enqLog, p) =
                [i \in 1..Len(OfPusher(enqLog, p)) |-> <<p, i>>]
          /\ OfPusher(applyLog, p) =
                [i \in 1..Len(OfPusher(applyLog, p)) |-> <<p, i>>]
          /\ push[p].pc = "done" =>
                Len(OfPusher(enqLog, p)) = Len(push[p].req.var_infos)
          /\ \A i \in 1..Len(OfPusher(enqLog, p)) :
                heap[<<p, i>>].data = push[p].req.var_infos[i].w

\* two pushes whose entries were enqueued alternately, all applied
C2_Witness ==
    /\ enqLog = <<<<1, 1>>, <<2, 1>>, <<1, 2>>, <<2, 2>>>>
    /\ applyLog = enqLog

AllDistinctPushed ==
    \A p \in Pushers : push[p].pc = "done" /\ push[p].req = DistinctReq(p)
\* no Pull asked for a sign outside the pushed ones
PullsOnlyPushed ==
    \A c \in Pullers : pull[c].pc # "idle" =>
        \A n \in 1..Len(pull[c].req.signs) : pull[c].req.signs[n] \in Keys

\* C4: after N concurrent Push calls of K signs each, all N*K distinct and
\* unseen before, once the queue is drained KeyCount() = N*K (no other sign
\* having been looked up) and every pushed sign has a record that received
\* exactly one apply, of its own gradient.
C4_NoLostKeys ==
    (AllDistinctPushed /\ Drained) =>
        /\ PullsOnlyPushed => KeyCount = NumPushers * EntriesPerPush
        /\ \A b \in BufIds :
              /\ values[SignOf(b)] # NoRecord
              /\ values[SignOf(b)].show = 1
              /\ values[SignOf(b)].w = [j \in 1..dim_ |-> <<GradOf(b[1], b[2])>>]

\* drained after both pushes, a Pull having created the record of sign 2
\* before its gradient was applied
C4_Witness ==
    /\ AllDistinctPushed
    /\ Drained
    /\ PullsOnlyPushed
    /\ KeyCount = NumPushers * EntriesPerPush
    /\ insertedBy[2] = "puller"

\* C5: once a Push containing sign K has returned and the queue is drained,
\* the record of K holds that push's update in every component, and every
\* Pull that begins from then on returns for K a vector that holds it.
C5_PullAfterDrainSeesUpdate ==
    /\ Drained =>
          \A b \in ReturnedBufs : \A j \in 1..dim_ :
              /\ values[SignOf(b)] # NoRecord
              /\ GradOf(b[1], b[2]) \in Range(values[SignOf(b)].w[j])
    /\ \A c \in Pullers : \A b \in pull[c].settled :
          \A n \in 1..Len(resp[c].weights) :
              pull[c].req.signs[n] = SignOf(b) =>
                  \A j \in 1..Len(resp[c].weights[n]) :
                      GradOf(b[1], b[2]) \in Range(resp[c].weights[n][j])

\* a Pull for sign 1 that began after the push of sign 1 was drained, done
C5_Witness ==
    \E c \in Pullers :
        /\ pull[c].pc = "done"
        /\ <<1, 1>> \in pull[c].settled
        /\ pull[c].req.signs[1] = 1
        /\ Len(resp[c].weights[1]) = dim_

IsPrefix(s, t) == Len(s) <= Len(t) /\ SubSeq(t, 1, Len(s)) = s

\* C9: a Pull whose request dim equals the table's never fails and returns
\* one vector of dim components per requested sign, in request order: the
\* n-th vector is read from the record of the n-th sign, which exists (it is
\* created when missing).
C9_PullOneVectorPerKey ==
    \A c \in Pullers :
        (pull[c].pc # "idle" /\ pull[c].req.dim = dim_) =>
            /\ pull[c].pc # "fatal"
            /\ resp[c].dim = dim_
            /\ Len(resp[c].weights) <= Len(pull[c].req.signs)
            /\ \A n \in 1..Len(resp[c].weights) :
                  /\ values[pull[c].req.signs[n]] # NoRecord
                  /\ Len(resp[c].weights[n]) <= dim_
                  /\ \A j \in 1..Len(resp[c].weights[n]) :
                        IsPrefix(resp[c].weights[n][j],
                                 values[pull[c].req.signs[n]].w[j])
            /\ pull[c].pc = "done" =>
                  /\ Len(resp[c].weights) = Len(pull[c].req.signs)
                  /\ \A n \in 1..Len(resp[c].weights) :
                        Len(resp[c].weights[n]) = dim_

\* a finished Pull of an updated sign and of a sign that had no record
C9_Witness ==
    \E c \in Pullers :
        /\ pull[c].pc = "done"
        /\ pull[c].req.signs = <<1, UnseenKey>>
        /\ resp[c].weights[1][1] # <<>>
        /\ insertedBy[UnseenKey] = "puller"

DimMismatchStopsCall ==
    /\ \A c \in Pullers :
          (pull[c].pc # "idle" /\ pull[c].req.dim # dim_) =>
              /\ pull[c].pc = "fatal"
              /\ resp[c].weights = <<>>
              /\ pull[c].i = 1 /\ pull[c].sign = 0
    /\ \A p \in Pushers :
          (push[p].pc # "idle" /\ push[p].req.dim # dim_) =>
              /\ push[p].pc = "fatal"
              /\ OfPusher(enqLog, p) = <<>>
              /\ \A n \in 1..Len(grad_update_queue_) :
                    grad_update_queue_[n].grad[1] # p
              /\ \A i \in 1..EntriesPerPush : heap[<<p, i>>].st = "unalloc"
DimMismatchChangesNothing ==
    /\ \A c \in Pullers : (pull[c].pc = "idle" /\ pull'[c].pc = "fatal") =>
          (values' = values /\ grad_update_queue_' = grad_update_queue_)
    /\ \A p \in Pushers : (push[p].pc = "idle" /\ push'[p].pc = "fatal") =>
          (values' = values /\ grad_update_queue_' = grad_update_queue_)

\* C10: a Pull or Push whose request dim differs from dim_ stops at the
\* CHECK: the Pull adds no weight vector and looks up no sign, the Push
\* enqueues no item, and the keyed collection and the queue are unchanged.
C10_DimMismatchIsFatal ==
    [](DimMismatchStopsCall) /\ [][DimMismatchChangesNothing]_vars

\* a Pull and a Push stopped at the dim CHECK while another Push's items
\* are queued
C10_Witness ==
    /\ \E c \in Pullers : pull[c].pc = "fatal"
    /\ push[1].pc = "fatal" /\ push[1].req.dim # dim_
    /\ Len(grad_update_queue_) = EntriesPerPush

\* ------------------------------------------------------------ claims: record size
\* the size the sizing rule gives a record of dim d, in bytes
RuleSize(d) ==
    IF d < 2 THEN SizeofSparseAdamValue
    ELSE SizeofSparseAdamValue + 3 * d * SizeofFloat
Allocated == value # NoValue /\ value.bytes # 0
AccessorsCalled == {a \in {value.w, value.m, value.v} : a # "none"}
\* the accessors take the inline member exactly when the allocated size has
\* no trailing bytes
SamePredicate ==
    Allocated =>
        \A a \in AccessorsCalled :
            (a = "v") <=> (value.bytes = SizeofSparseAdamValue)

DigitValue(ch) == CHOOSE k \in 0..9 : Digits[k + 1] = ch
IsNumeral(str) == Len(str) >= 1 /\ \A n \in 1..Len(str) : str[n] \in Range(Digits)
RECURSIVE DecimalValue(_)
\* the number a decimal numeral denotes
DecimalValue(str) ==
    IF Len(str) = 1 THEN DigitValue(str[1])
    ELSE 10 * DecimalValue(SubSeq(str, 1, Len(str) - 1))
            + DigitValue(str[Len(str)])
\* path reads {dir}/sparse_table/{h}/rank_{s}
LaidOut(path, dir, h, s) ==
    LET front == dir \o SparseTableDir
        rest == SubSeq(path, Len(front) + 1, Len(path))
    IN  /\ IsPrefix(front, path)
        /\ \E n \in 1..(Len(rest) - Len(RankPrefix) - 1) :
              LET hs == SubSeq(rest, 1, n)
                  ss == SubSeq(rest, n + Len(RankPrefix) + 1, Len(rest))
              IN  /\ IsNumeral(hs) /\ DecimalValue(hs) = h
                  /\ SubSeq(rest, n + 1, n + Len(RankPrefix)) = RankPrefix
                  /\ IsNumeral(ss) /\ DecimalValue(ss) = s
\* the files table t has addressed
Addressed(t) == {files[t].save, files[t].load} \ {NoFile}

\* C12: Save and Load of one table address the same file, laid out as
\* {directory}/sparse_table/{handle}/rank_{shard_id}; tables with the same
\* directory, handle and shard id address the same file, and tables that
\* differ in handle or shard id never address the same file under one
\* directory.
C12_SaveLoadSameFile ==
    files # NoFiles =>
        /\ \A t \in SavedTables :
              /\ Cardinality(Addressed(t)) <= 1
              /\ \A f \in Addressed(t) :
                    LaidOut(f, files[t].dir, files[t].handle, files[t].shard)
        /\ \A t, u \in SavedTables :
              (files[t].dir = files[u].dir /\ files[t].dir # NoFile) =>
                  IF files[t].handle = files[u].handle
                        /\ files[t].shard = files[u].shard
                  THEN Cardinality(Addressed(t) \cup Addressed(u)) <= 1
                  ELSE Addressed(t) \cap Addressed(u) = {}

\* handle 1 of shard 11 and handle 11 of shard 1, saved and loaded under one
\* directory
C12_Witness ==
    /\ files # NoFiles
    /\ files[1].handle = 1 /\ files[1].shard = MaxShard - 1
    /\ files[2].handle = MaxHandle - 1 /\ files[2].shard = 1
    /\ files[1].dir = files[2].dir
    /\ \A t \in SavedTables : files[t].save # NoFile /\ files[t].load # NoFile

\* ------------------------------------------------------------ claims: shutdown
Popped == Len(grad_update_queue_') < Len(grad_update_queue_)

\* C13 as stated: once the stop flag is raised the applier pops and applies
\* nothing more.
C13_NoDrainAfterStop ==
    [][stop_thread_ => (~Popped /\ applyLog' = applyLog)]_vars

\* C13: the applier tests the stop flag only between two passes over the
\* queue.  Once the flag is raised it begins no new pass, and a pass under
\* way goes on popping and applying until it finds the queue empty; once
\* the thread has left its loop, and so once the join has returned, nothing
\* is popped and no Apply occurs.
C13_NoNewPassAfterStop ==
    [][/\ (stop_thread_ /\ applier.pc = "outer") =>
              applier'.pc \in {"outer", "exited"}
       /\ Popped => applier.pc = "pop"
       /\ (applier.pc = "exited" \/ dtor = "destroyed") =>
              (applier' = applier /\ ~Popped /\ applyLog' = applyLog)]_vars

\* an item that was in the queue when the flag was raised has been popped
\* and applied since
C13_Witness ==
    /\ stop_thread_
    /\ atStop # NoStop
    /\ TimesApplied(atStop) = 1

\* what the applier left in the queue stays there, unapplied and unreleased
LeftoversStay ==
    applier.pc = "exited" =>
        /\ applyLog' = applyLog
        /\ \A n \in 1..Len(grad_update_queue_) :
              /\ grad_update_queue_'[n] = grad_update_queue_[n]
              /\ heap'[grad_update_queue_[n].grad].st = "live"

\* C14: the table reaches Destroyed only after the applier thread has left
\* its loop, whatever is then in the queue; an item left in the queue is
\* never applied, never released and never taken out again, and it has not
\* been applied before.
C14_LostItemsStayLost ==
    /\ [](dtor = "destroyed" => applier.pc = "exited")
    /\ [](\A n \in 1..Len(grad_update_queue_) :
              /\ TimesApplied(QueueBufs[n]) = 0
              /\ heap[QueueBufs[n]].st = "live")
    /\ [][LeftoversStay]_vars

\* the table is Destroyed while the item of a Push that had returned before
\* the flag was raised is still in the queue, unapplied
C14_Witness ==
    /\ dtor = "destroyed"
    /\ atStop # NoStop
    /\ atStop \in Range(QueueBufs)
    /\ TimesApplied(atStop) = 0
    /\ push[atStop[1]].pc = "done"

\* C15 as stated: whatever the callers of Push do, a raised stop flag leads
\* to the destructor's join returning.
C15_StopAlwaysEnds == stop_thread_ ~> (dtor = "destroyed")

\* C15: if the callers of Push eventually stop calling it, a raised stop
\* flag leads to the applier thread leaving its loop and the destructor's
\* join returning.
C15_StopEndsOncePushesCease ==
    (<>[][push' = push]_vars) => (stop_thread_ ~> (dtor = "destroyed"))

\* the table Destroyed after a Push that returned while the table was
\* stopping: no item of a returned Push was in the queue when the flag was
\* raised, and now one is
C15_Witness ==
    /\ dtor = "destroyed"
    /\ atStop = NoStop
    /\ \E b \in BufIds : push[b[1]].pc = "done" /\ b \in Range(QueueBufs)

\* ------------------------------------------------------------ claims: buffers
Held == IF applier.pc \in {"lookup", "apply", "delete"}
        THEN {applier.grad_info.grad} ELSE {}
TimesQueued(b) ==
    Cardinality({n \in 1..Len(grad_update_queue_) : QueueBufs[n] = b})

\* C16 as stated: a buffer is in one place at a time, the queue or the
\* applier; it is released once, by the applier's delete, after its Apply
\* has completed, and not while it is in the queue; a buffer the applier
\* reads is not released; every buffer has been released when the table is
\* Destroyed.
C16_BuffersReleasedOnce ==
    /\ \A b \in BufIds :
          /\ heap[b].st \in {"unalloc", "live", "freed"}
          /\ heap[b].st = "live" =>
                TimesQueued(b) + Cardinality(Held \cap {b}) = 1
          /\ heap[b].st = "freed" =>
                (TimesQueued(b) = 0 /\ b \notin Held /\ TimesApplied(b) = 1)
          /\ (b \in Held /\ applier.pc = "delete") => TimesApplied(b) = 1
    /\ dtor = "destroyed" => \A b \in BufIds : heap[b].st # "live"

\* ------------------------------------------------------------ claims: torn reads
\* the weight component of sign after the Applies completed so far
AppliedTerm(sign) ==
    LET log == SelectSeq(applyLog, LAMBDA b : SignOf(b) = sign)
    IN  [n \in 1..Len(log) |-> GradOf(log[n][1], log[n][2])]
CurrentVector(c) == resp[c].weights[Len(resp[c].weights)]
CopyConsistent ==
    \A c \in Pullers : (pull[c].pc = "copy" /\ ~pull[c].racing) =>
        /\ Len(CurrentVector(c)) = pull[c].j - 1
        /\ \A m \in 1..Len(CurrentVector(c)) :
              CurrentVector(c)[m] = AppliedTerm(pull[c].sign)
CopyStepConsistent ==
    \A c \in Pullers :
        (pull[c].pc = "copy" /\ ~pull[c].racing /\ resp'[c] # resp[c]) =>
            resp'[c].weights[Len(resp[c].weights)] =
                [m \in 1..pull[c].j |-> AppliedTerm(pull[c].sign)]

\* C17: when no Apply has written part of the sign's record as Pull begins
\* to copy it and none writes to it during the copy, every component Pull
\* copies is the record's value after the Applies completed so far: the
\* vector is one consistent state of the record.
C17_QuietPullIsConsistent ==
    [](CopyConsistent) /\ [][CopyStepConsistent]_vars

\* a torn read: the vector's first component is from before one Apply and
\* its last component from after it
C17_Witness ==
    \E c \in Pullers : \E n \in 1..Len(resp[c].weights) :
        LET v == resp[c].weights[n]
        IN  /\ Len(v) = dim_
            /\ \E b \in BufIds : v[dim_] = Append(v[1], GradOf(b[1], b[2]))

\* ------------------------------------------------------------ claims: handles
\* C18 as stated: every table the registry holds at index h has handle h.
C18_GetHandleAgrees ==
    \A h \in 0..(Len(tables_) - 1) : handle_[tables_[h + 1]] = h

\* ------------------------------------------------------------ claims: Push
\* the index of the first entry of req whose gradient length is not dim_
BadEntries(req) ==
    {m \in 1..Len(req.var_infos) : Len(req.var_infos[m].w) # dim_}
FirstBad(req) == CHOOSE m \in BadEntries(req) : \A k \in BadEntries(req) : m <= k

\* C19: a Push whose request dim matches and whose entry f is the first of
\* a wrong length never enqueues entry f or a later one; it stops at the
\* CHECK on entry f, and has by then enqueued the entries before f, in
\* order.
C19_PushStopsAtFirstBadEntry ==
    \A p \in Pushers :
        (push[p].req # NoReq /\ push[p].req.dim = dim_
            /\ BadEntries(push[p].req) # {}) =>
            LET f == FirstBad(push[p].req)
            IN  /\ \A m \in f..EntriesPerPush : heap[<<p, m>>].st = "unalloc"
                /\ IsPrefix(OfPusher(enqLog, p), [m \in 1..(f - 1) |-> <<p, m>>])
                /\ push[p].pc # "done"
                /\ push[p].pc = "fatal" =>
                      /\ push[p].i = f
                      /\ OfPusher(enqLog, p) = [m \in 1..(f - 1) |-> <<p, m>>]

\* a Push stopped at its second entry after its first entry was enqueued,
\* and that entry has been applied
C19_Witness ==
    \E p \in Pushers :
        /\ push[p].pc = "fatal"
        /\ push[p].req = BadLenReq(p, 2)
        /\ TimesApplied(<<p, 1>>) = 1
====
